---- MODULE Spec2Model ----
(***************************************************************************)
(* Telnet <-> UART bridge (src/main.py): the outer accept loop, the        *)
(* negotiation preamble, the per-session relay loop with its control-byte  *)
(* filter and reset pulse, and the two teardown paths.                     *)
(*                                                                         *)
(* Program positions (pc):                                                 *)
(*   "accept"   line 131, blocked in server_socket.accept()                *)
(*   "preamble" line 141, about to call client_socket.sendall(...)         *)
(*   "loop"     line 149, the test of `while connectedSocket`              *)
(*   "read"     line 156, about to call client_file.read(1)                *)
(*   "pulse"    line 172, inside time.sleep(0.1) with nReset low           *)
(*   "uart"     line 184, about to poll uart0.any()                        *)
(*   "send"     line 189, about to call client_socket.send(uartRxData)     *)
(*   "close"    line 198, after the relay loop (orderly teardown)          *)
(*   "except"   line 204, in the handler of `except OSError`               *)
(*   "crashed"  an exception that is not an OSError left the `while True`  *)
(*                                                                         *)
(* The listening socket is blocking and accept() is taken to return a      *)
(* channel; close() and makefile() are taken not to raise.                 *)
(***************************************************************************)
EXTENDS Integers, Sequences, FiniteSets

\* ---------------------------------------------------------------- bounds
\* client bytes read in one session
MaxRx == 4
\* serial bytes read in one session
MaxSer == 2

\* ------------------------------------------------------ program constants
NUL == 0
IAC == 255
BRK == 243

\* The bytes a client may send: the three protocol bytes and two data bytes.
ClientBytes == {NUL, 65, 66, BRK, IAC}
\* The bytes the serial device may produce.
SerialBytes == {10, 13}

\* The argument tuples of the OSError a socket call may raise: errno
\* "would block", some other errno, or no arguments at all.
EAGAIN == "EAGAIN"
ECONNRESET == "ECONNRESET"
OSErrorArgs == {<<EAGAIN>>, <<ECONNRESET>>, <<>>}
NoExc == [at |-> "none", args |-> <<>>]

\* bytes([255,251,1,255,251,3,255,252,34])
Preamble == <<255, 251, 1, 255, 251, 3, 255, 252, 34>>

\* The names the module binds with `import`: errno is not among them.
ImportedModules == {"machine", "network", "rp2", "socket", "time", "secrets"}

VARIABLES
    pc,               \* position of the single thread of control
    openChannels,     \* number of accepted client sockets not yet closed
    telnetLed,        \* TRUE = on
    nReset,           \* TRUE = high (inactive)
    discard_count,
    connectedSocket,
    uartRxData,       \* last byte read from the UART, <<>> for bytes()
    writtenToSocket,
    exc,              \* the OSError last raised in this session: the call
                      \* that raised it and its args; NoExc when the last
                      \* socket call of the session returned normally
    clientOut,        \* bytes the client socket accepted in this session
    uartTx,           \* bytes written to the UART in this session
    pulses,           \* falling edges of nReset in this session
    trace,            \* history: one record per client byte read
    serLog,           \* history: bytes read from the UART in this session
    iterC,            \* history: client bytes read in this loop iteration
    iterS,            \* history: serial bytes read in this loop iteration
    iterPolled        \* history: client_file.read called in this iteration

vars == <<pc, openChannels, telnetLed, nReset, discard_count,
          connectedSocket, uartRxData, writtenToSocket, exc, clientOut,
          uartTx, pulses, trace, serLog, iterC, iterS, iterPolled>>

hw == <<telnetLed, nReset>>
filt == <<discard_count, uartTx, pulses, trace>>
iter == <<iterC, iterS, iterPolled>>

Init ==
    /\ pc = "accept"
    /\ openChannels = 0
    /\ telnetLed = FALSE
    /\ nReset = TRUE
    /\ discard_count = 0
    /\ connectedSocket = TRUE
    /\ uartRxData = <<>>
    /\ writtenToSocket = 0
    /\ exc = NoExc
    /\ clientOut = <<>>
    /\ uartTx = <<>>
    /\ pulses = 0
    /\ trace = <<>>
    /\ serLog = <<>>
    /\ iterC = 0
    /\ iterS = 0
    /\ iterPolled = FALSE

\* ------------------------------------------------------------- lifecycle

\* lines 131-135: accept() returns a channel, setblocking(False), LED on.
Accept ==
    /\ pc = "accept"
    /\ pc' = "preamble"
    /\ openChannels' = openChannels + 1
    /\ telnetLed' = TRUE
    /\ clientOut' = <<>>
    /\ exc' = NoExc
    /\ uartTx' = <<>>
    /\ pulses' = 0
    /\ trace' = <<>>
    /\ serLog' = <<>>
    /\ UNCHANGED <<nReset, discard_count, connectedSocket, uartRxData,
                   writtenToSocket, iter>>

\* SendPreamble with send in place of sendall: a short write goes unnoticed.
SendPreamble_ShortWrite ==
    /\ pc = "preamble"
    /\ \E k \in 1..Len(Preamble) :
          clientOut' = clientOut \o SubSeq(Preamble, 1, k)
    /\ uartRxData' = <<>>
    /\ discard_count' = 0
    /\ connectedSocket' = TRUE
    /\ pc' = "loop"
    /\ UNCHANGED <<openChannels, hw, writtenToSocket, exc, uartTx, pulses,
                   trace, serLog, iter>>

\* lines 141-147: sendall either queues all nine bytes or raises OSError;
\* then makefile and the per-session initialisation.
SendPreamble ==
    /\ pc = "preamble"
    /\ \/ /\ clientOut' = clientOut \o Preamble
          /\ uartRxData' = <<>>
          /\ discard_count' = 0
          /\ connectedSocket' = TRUE
          /\ pc' = "loop"
          /\ UNCHANGED exc
       \/ /\ \E k \in 0..(Len(Preamble) - 1), a \in OSErrorArgs :
                /\ clientOut' = clientOut \o SubSeq(Preamble, 1, k)
                /\ exc' = [at |-> "sendall", args |-> a]
          /\ pc' = "except"
          /\ UNCHANGED <<uartRxData, discard_count, connectedSocket>>
    /\ UNCHANGED <<openChannels, hw, writtenToSocket, uartTx, pulses, trace,
                   serLog, iter>>

\* LoopTest that never tests connectedSocket (`while True`).
LoopTest_IgnoresFlag ==
    /\ pc = "loop"
    /\ pc' = "read"
    /\ iterC' = 0
    /\ iterS' = 0
    /\ iterPolled' = FALSE
    /\ UNCHANGED <<openChannels, hw, discard_count, connectedSocket,
                   uartRxData, writtenToSocket, exc, clientOut, uartTx,
                   pulses, trace, serLog>>

\* LoopTest with an idle timeout: an iteration that moved no byte in either
\* direction ends the session.
LoopTest_IdleTimeout ==
    /\ pc = "loop"
    /\ pc' = IF connectedSocket /\ ~(iterPolled /\ iterC = 0 /\ iterS = 0)
             THEN "read" ELSE "close"
    /\ iterC' = 0
    /\ iterS' = 0
    /\ iterPolled' = FALSE
    /\ UNCHANGED <<openChannels, hw, discard_count, connectedSocket,
                   uartRxData, writtenToSocket, exc, clientOut, uartTx,
                   pulses, trace, serLog>>

\* line 149: the test of `while connectedSocket`.
LoopTest ==
    /\ pc = "loop"
    /\ pc' = IF connectedSocket THEN "read" ELSE "close"
    /\ iterC' = 0
    /\ iterS' = 0
    /\ iterPolled' = FALSE
    /\ UNCHANGED <<openChannels, hw, discard_count, connectedSocket,
                   uartRxData, writtenToSocket, exc, clientOut, uartTx,
                   pulses, trace, serLog>>

\* lines 198-201: orderly teardown.
Close ==
    /\ pc = "close"
    /\ openChannels' = openChannels - 1
    /\ telnetLed' = FALSE
    /\ pc' = "accept"
    /\ UNCHANGED <<nReset, discard_count, connectedSocket, uartRxData,
                   writtenToSocket, exc, clientOut, uartTx, pulses,
                   trace, serLog, iter>>

\* Except without the close of line 204.
Except_NoClose ==
    /\ pc = "except"
    /\ pc' = "accept"
    /\ UNCHANGED <<openChannels, hw, discard_count, connectedSocket,
                   uartRxData, writtenToSocket, exc, clientOut, uartTx,
                   pulses, trace, serLog, iter>>

\* lines 203-206: the handler of `except OSError`.
Except ==
    /\ pc = "except"
    /\ openChannels' = openChannels - 1
    /\ pc' = "accept"
    /\ UNCHANGED <<hw, discard_count, connectedSocket, uartRxData,
                   writtenToSocket, exc, clientOut, uartTx, pulses,
                   trace, serLog, iter>>

\* ------------------------------------------------------ Telnet -> UART TX

\* FilterStep with a discard window of one byte after IAC.
FilterStep_Window1(b, dc) ==
    IF b = IAC THEN [dc |-> 1, write |-> FALSE, pulse |-> FALSE]
    ELSE IF dc # 0 THEN
        IF b = BRK THEN [dc |-> 0, write |-> FALSE, pulse |-> TRUE]
        ELSE [dc |-> dc - 1, write |-> FALSE, pulse |-> FALSE]
    ELSE IF b # NUL THEN [dc |-> dc, write |-> TRUE, pulse |-> FALSE]
    ELSE [dc |-> dc, write |-> FALSE, pulse |-> FALSE]

\* FilterStep whose BRK branch pulses but counts down instead of clearing.
FilterStep_BrkNoClear(b, dc) ==
    IF b = IAC THEN [dc |-> 2, write |-> FALSE, pulse |-> FALSE]
    ELSE IF dc # 0 THEN
        IF b = BRK THEN [dc |-> dc - 1, write |-> FALSE, pulse |-> TRUE]
        ELSE [dc |-> dc - 1, write |-> FALSE, pulse |-> FALSE]
    ELSE IF b # NUL THEN [dc |-> dc, write |-> TRUE, pulse |-> FALSE]
    ELSE [dc |-> dc, write |-> FALSE, pulse |-> FALSE]

\* FilterStep that tests for BRK before it tests the discard count.
FilterStep_BrkAnywhere(b, dc) ==
    IF b = IAC THEN [dc |-> 2, write |-> FALSE, pulse |-> FALSE]
    ELSE IF b = BRK THEN [dc |-> 0, write |-> FALSE, pulse |-> TRUE]
    ELSE IF dc # 0 THEN [dc |-> dc - 1, write |-> FALSE, pulse |-> FALSE]
    ELSE IF b # NUL THEN [dc |-> dc, write |-> TRUE, pulse |-> FALSE]
    ELSE [dc |-> dc, write |-> FALSE, pulse |-> FALSE]

\* FilterStep without the NUL test of line 177.
FilterStep_NulForwarded(b, dc) ==
    IF b = IAC THEN [dc |-> 2, write |-> FALSE, pulse |-> FALSE]
    ELSE IF dc # 0 THEN
        IF b = BRK THEN [dc |-> 0, write |-> FALSE, pulse |-> TRUE]
        ELSE [dc |-> dc - 1, write |-> FALSE, pulse |-> FALSE]
    ELSE [dc |-> dc, write |-> TRUE, pulse |-> FALSE]

\* FilterStep that tests the discard count before it tests for IAC: an IAC
\* inside a window is counted like any other byte.
FilterStep_IacCounted(b, dc) ==
    IF dc # 0 THEN
        IF b = BRK THEN [dc |-> 0, write |-> FALSE, pulse |-> TRUE]
        ELSE [dc |-> dc - 1, write |-> FALSE, pulse |-> FALSE]
    ELSE IF b = IAC THEN [dc |-> 2, write |-> FALSE, pulse |-> FALSE]
    ELSE IF b # NUL THEN [dc |-> dc, write |-> TRUE, pulse |-> FALSE]
    ELSE [dc |-> dc, write |-> FALSE, pulse |-> FALSE]

\* FilterStep that takes a doubled IAC for an escaped data byte 255 and
\* forwards it.
FilterStep_IacIacLiteral(b, dc) ==
    IF b = IAC /\ dc = 2 THEN [dc |-> 0, write |-> TRUE, pulse |-> FALSE]
    ELSE IF b = IAC THEN [dc |-> 2, write |-> FALSE, pulse |-> FALSE]
    ELSE IF dc # 0 THEN
        IF b = BRK THEN [dc |-> 0, write |-> FALSE, pulse |-> TRUE]
        ELSE [dc |-> dc - 1, write |-> FALSE, pulse |-> FALSE]
    ELSE IF b # NUL THEN [dc |-> dc, write |-> TRUE, pulse |-> FALSE]
    ELSE [dc |-> dc, write |-> FALSE, pulse |-> FALSE]

\* lines 167-178: what the filter does with byte b in state dc.
\*   dc    the discard count afterwards
\*   write uart0.write is called with the byte
\*   pulse the reset line is pulsed
FilterStep(b, dc) ==
    IF b = IAC THEN [dc |-> 2, write |-> FALSE, pulse |-> FALSE]
    ELSE IF dc # 0 THEN
        IF b = BRK THEN [dc |-> 0, write |-> FALSE, pulse |-> TRUE]
        ELSE [dc |-> dc - 1, write |-> FALSE, pulse |-> FALSE]
    ELSE IF b # NUL THEN [dc |-> dc, write |-> TRUE, pulse |-> FALSE]
    ELSE [dc |-> dc, write |-> FALSE, pulse |-> FALSE]

\* ClientRead that treats "nothing to read" as the end of a telnet command
\* and clears discard_count.
ClientRead_IdleClears ==
    /\ pc = "read"
    /\ iterPolled' = TRUE
    /\ \/ /\ connectedSocket' = FALSE
          /\ pc' = "uart"
          /\ UNCHANGED <<nReset, filt, exc, iterC>>
       \/ /\ pc' = "uart"
          /\ discard_count' = 0
          /\ UNCHANGED <<nReset, uartTx, pulses, trace, exc, iterC,
                         connectedSocket>>
       \/ /\ \E a \in OSErrorArgs : exc' = [at |-> "read", args |-> a]
          /\ pc' = "except"
          /\ UNCHANGED <<nReset, filt, iterC, connectedSocket>>
       \/ /\ Len(trace) < MaxRx
          /\ \E b \in ClientBytes :
                LET r == FilterStep(b, discard_count) IN
                /\ trace' = Append(trace, [b |-> b, dc |-> discard_count,
                                           write |-> r.write,
                                           pulse |-> r.pulse])
                /\ uartTx' = IF r.write THEN Append(uartTx, b) ELSE uartTx
                /\ IF r.pulse
                   THEN /\ nReset' = FALSE
                        /\ pulses' = pulses + 1
                        /\ pc' = "pulse"
                        /\ UNCHANGED discard_count
                   ELSE /\ discard_count' = r.dc
                        /\ pc' = "uart"
                        /\ UNCHANGED <<nReset, pulses>>
          /\ iterC' = iterC + 1
          /\ UNCHANGED <<exc, connectedSocket>>
    /\ UNCHANGED <<openChannels, telnetLed, uartRxData, writtenToSocket,
                   clientOut, serLog, iterS>>

\* lines 156-178: one call of client_file.read(1) and what follows from it.
ClientRead ==
    /\ pc = "read"
    /\ iterPolled' = TRUE
    /\ \/ \* b'' : the peer closed the connection
          /\ connectedSocket' = FALSE
          /\ pc' = "uart"
          /\ UNCHANGED <<nReset, filt, exc, iterC>>
       \/ \* None : nothing to read
          /\ pc' = "uart"
          /\ UNCHANGED <<nReset, filt, exc, iterC, connectedSocket>>
       \/ \* the read raises OSError
          /\ \E a \in OSErrorArgs : exc' = [at |-> "read", args |-> a]
          /\ pc' = "except"
          /\ UNCHANGED <<nReset, filt, iterC, connectedSocket>>
       \/ \* one byte
          /\ Len(trace) < MaxRx
          /\ \E b \in ClientBytes :
                LET r == FilterStep(b, discard_count) IN
                /\ trace' = Append(trace, [b |-> b, dc |-> discard_count,
                                           write |-> r.write,
                                           pulse |-> r.pulse])
                /\ uartTx' = IF r.write THEN Append(uartTx, b) ELSE uartTx
                /\ IF r.pulse
                   THEN /\ nReset' = FALSE
                        /\ pulses' = pulses + 1
                        /\ pc' = "pulse"
                        /\ UNCHANGED discard_count
                   ELSE /\ discard_count' = r.dc
                        /\ pc' = "uart"
                        /\ UNCHANGED <<nReset, pulses>>
          /\ iterC' = iterC + 1
          /\ UNCHANGED <<exc, connectedSocket>>
    /\ UNCHANGED <<openChannels, telnetLed, uartRxData, writtenToSocket,
                   clientOut, serLog, iterS>>

\* PulseEnd without the nReset.on() of line 173.
PulseEnd_StaysLow ==
    /\ pc = "pulse"
    /\ discard_count' = FilterStep(trace[Len(trace)].b, discard_count).dc
    /\ pc' = "uart"
    /\ UNCHANGED <<openChannels, hw, connectedSocket, uartRxData,
                   writtenToSocket, exc, clientOut, uartTx, pulses,
                   trace, serLog, iter>>

\* lines 172-174: the sleep ends, nReset.on(), discard_count = 0.
PulseEnd ==
    /\ pc = "pulse"
    /\ nReset' = TRUE
    /\ discard_count' = FilterStep(trace[Len(trace)].b, discard_count).dc
    /\ pc' = "uart"
    /\ UNCHANGED <<openChannels, telnetLed, connectedSocket, uartRxData,
                   writtenToSocket, exc, clientOut, uartTx, pulses,
                   trace, serLog, iter>>

\* ------------------------------------------------------ UART RX -> Telnet

\* UartPoll with `while uart0.any() > 0` in place of `if`: after a byte is
\* read the UART is polled again before the client is.
UartPoll_Drain ==
    /\ pc = "uart"
    /\ \/ /\ pc' = "loop"
          /\ UNCHANGED <<uartRxData, writtenToSocket, serLog, iterS>>
       \/ /\ Len(serLog) < MaxSer
          /\ \E b \in SerialBytes :
                /\ uartRxData' = <<b>>
                /\ serLog' = Append(serLog, b)
          /\ writtenToSocket' = 0
          /\ iterS' = iterS + 1
          /\ pc' = "uart"
    /\ UNCHANGED <<openChannels, hw, discard_count, connectedSocket,
                   exc, clientOut, uartTx, pulses, trace, iterC,
                   iterPolled>>

\* lines 184-186: uart0.any(), and uart0.read(1) when a byte is waiting.
UartPoll ==
    /\ pc = "uart"
    /\ \/ /\ pc' = "loop"
          /\ UNCHANGED <<uartRxData, writtenToSocket, serLog, iterS>>
       \/ /\ Len(serLog) < MaxSer
          /\ \E b \in SerialBytes :
                /\ uartRxData' = <<b>>
                /\ serLog' = Append(serLog, b)
          /\ writtenToSocket' = 0
          /\ iterS' = iterS + 1
          /\ pc' = "send"
    /\ UNCHANGED <<openChannels, hw, discard_count, connectedSocket,
                   exc, clientOut, uartTx, pulses, trace, iterC,
                   iterPolled>>

\* lines 190-197: what the handler of the inner `except OSError as e` does
\* with an error whose args are a:
\*   "retry"     writtenToSocket = 0, the while loop sends again
\*   "raise"     the OSError is re-raised to the outer handler
\*   "NameError" the lookup of the name errno fails
SendErrorOutcome(a) ==
    IF Len(a) > 0
    THEN IF "errno" \in ImportedModules
         THEN IF a[1] = EAGAIN THEN "retry" ELSE "raise"
         ELSE "NameError"
    ELSE "raise"

\* lines 187-197: one pass of `while writtenToSocket != 1`.
Send ==
    /\ pc = "send"
    /\ writtenToSocket # 1
    /\ \/ \* send returns 1
          /\ clientOut' = clientOut \o uartRxData
          /\ writtenToSocket' = 1
          /\ pc' = "loop"
          /\ exc' = NoExc
       \/ \* send raises OSError
          \E a \in OSErrorArgs :
             /\ exc' = [at |-> "send", args |-> a]
             /\ pc' = CASE SendErrorOutcome(a) = "retry" -> "send"
                        [] SendErrorOutcome(a) = "raise" -> "except"
                        [] OTHER -> "crashed"
             /\ writtenToSocket' = IF SendErrorOutcome(a) = "retry"
                                   THEN 0 ELSE writtenToSocket
             /\ UNCHANGED clientOut
    /\ UNCHANGED <<openChannels, hw, discard_count, connectedSocket,
                   uartRxData, uartTx, pulses, trace, serLog, iter>>

Next ==
    \/ Accept
    \/ SendPreamble
    \/ LoopTest
    \/ ClientRead
    \/ PulseEnd
    \/ UartPoll
    \/ Send
    \/ Close
    \/ Except

Spec == Init /\ [][Next]_vars

TypeOK ==
    /\ pc \in {"accept", "preamble", "loop", "read", "pulse", "uart",
               "send", "close", "except", "crashed"}
    /\ openChannels \in 0..1
    /\ discard_count \in 0..2
    /\ Len(trace) <= MaxRx
    /\ Len(serLog) <= MaxSer
\* ------------------------------------------------------------ histories

\* The positions of the relay loop (lines 149-197).
RelayPcs == {"loop", "read", "pulse", "uart", "send"}

\* The client bytes read in this session, in arrival order.
RxBytes == [i \in 1..Len(trace) |-> trace[i].b]

\* The discard count after the i-th client byte was processed (for the
\* last byte: once its processing is over).
DcAfter(i) == IF i < Len(trace) THEN trace[i + 1].dc ELSE discard_count

\* The i-th client byte lies in the discard window of an earlier IAC: it is
\* the byte after an IAC, or the second byte after an IAC whose first
\* window byte was not BRK.
InWindow(i) ==
    \/ i > 1 /\ trace[i - 1].b = IAC
    \/ i > 2 /\ trace[i - 2].b = IAC /\ trace[i - 1].b # BRK

RECURSIVE Without(_, _)
\* The sequence s without its elements in the set D.
Without(s, D) ==
    IF s = <<>> THEN <<>>
    ELSE IF s[1] \in D THEN Without(Tail(s), D)
    ELSE <<s[1]>> \o Without(Tail(s), D)

\* ---------------------------------------------------------------- claims

\* C1: in every session the nine preamble bytes are sent in full, once,
\* before the first client read and before any serial byte is sent; the
\* relay loop is never reached without them: whatever the client has
\* received is the preamble followed by serial bytes in the order read.
C1_PreambleFirst ==
    (pc \in RelayPcs \/ Len(trace) > 0 \/ Len(serLog) > 0) =>
        /\ Len(clientOut) >= Len(Preamble)
        /\ Len(clientOut) - Len(Preamble) <= Len(serLog)
        /\ clientOut =
             Preamble \o SubSeq(serLog, 1, Len(clientOut) - Len(Preamble))

C1_Witness ==
    /\ Len(trace) > 0
    /\ Len(clientOut) = Len(Preamble) + 1

\* C2: a 255 opens a discard window over exactly the next two bytes, cut
\* short by a BRK in the window and restarted by another 255; the filter is
\* in a discard state exactly inside a window, and neither a 255 nor a byte
\* inside a window is written to the UART.
C2_EscapeConsumption ==
    /\ \A i \in 1..Len(trace) :
          /\ (trace[i].dc # 0) <=> InWindow(i)
          /\ trace[i].b = IAC => ~trace[i].write
          /\ InWindow(i) => ~trace[i].write
    /\ \A k \in 1..Len(uartTx) : uartTx[k] # IAC
    /\ Len(uartTx) = Cardinality({i \in 1..Len(trace) : trace[i].write})

C2_Witness ==
    /\ RxBytes = <<IAC, 65, 66, 65>>
    /\ uartTx = <<65>>

\* C3: from NORMAL, IAC then BRK gives exactly one reset pulse, no byte on
\* the UART and the filter back in NORMAL; IAC then a byte other than 243
\* and 255 gives no pulse and no byte on the UART.
C3_IacBrk ==
    /\ \A i \in 1..(Len(trace) - 1) :
          (trace[i].dc = 0 /\ trace[i].b = IAC) =>
             /\ ~trace[i].write /\ ~trace[i].pulse /\ ~trace[i + 1].write
             /\ trace[i + 1].b = BRK =>
                   /\ trace[i + 1].pulse
                   /\ (i + 1 < Len(trace) \/ pc # "pulse") => DcAfter(i + 1) = 0
             /\ trace[i + 1].b \notin {BRK, IAC} => ~trace[i + 1].pulse
    /\ (RxBytes = <<IAC, BRK>> /\ pc # "pulse") =>
          pulses = 1 /\ uartTx = <<>> /\ discard_count = 0
    /\ \A c \in ClientBytes \ {BRK, IAC} :
          RxBytes = <<IAC, c>> => pulses = 0 /\ uartTx = <<>>

C3_Witness ==
    /\ RxBytes = <<IAC, BRK>>
    /\ pc = "uart"
    /\ pulses = 1

\* C4: in a session whose client bytes so far contain neither 255 nor 0,
\* the UART has been written exactly those bytes, in order, and the reset
\* line has not been pulsed.
C4_PassThrough ==
    (\A i \in 1..Len(trace) : trace[i].b \notin {IAC, NUL}) =>
        /\ uartTx = RxBytes
        /\ pulses = 0
        /\ nReset

C4_Witness ==
    /\ RxBytes = <<65, BRK, 66, 65>>
    /\ uartTx = <<65, BRK, 66, 65>>

\* C5: a NUL read in NORMAL is not written to the UART and leaves the
\* filter in NORMAL, so that the bytes around it pass in order: A,0,B on the
\* client side gives A,B on the UART.
C5_NulDropped ==
    /\ \A i \in 1..Len(trace) :
          (trace[i].b = NUL /\ trace[i].dc = 0) =>
             ~trace[i].write /\ ~trace[i].pulse /\ DcAfter(i) = 0
    /\ (\A i \in 1..Len(trace) : trace[i].b # IAC) =>
          uartTx = Without(RxBytes, {NUL})
    /\ RxBytes = <<65, NUL, 66>> => uartTx = <<65, 66>>

C5_Witness ==
    /\ RxBytes = <<65, NUL, 66>>
    /\ uartTx = <<65, 66>>
\* C6: a send that reports "would block" is retried with the same byte
\* until it succeeds, the session going on; every serial byte read reaches
\* the client once, in the order read, and none is read while one is in
\* flight.
C6_RetryDelivers ==
    /\ (exc.at = "send" /\ exc.args = <<EAGAIN>>) =>
          /\ pc = "send"
          /\ writtenToSocket = 0
          /\ uartRxData = <<serLog[Len(serLog)]>>
    /\ pc \in RelayPcs =>
          clientOut = Preamble \o
             (IF pc = "send" THEN SubSeq(serLog, 1, Len(serLog) - 1)
              ELSE serLog)

\* C7: no failure terminates the process: after an I/O failure on the
\* client channel (other than a "would block" of send, which is retried)
\* the session is torn down, the channel is closed and accept is reached.
C7_FailuresSessionLocal ==
    /\ pc # "crashed"
    /\ (exc.at # "none" /\ ~(exc.at = "send" /\ exc.args = <<EAGAIN>>)) =>
          pc \in {"except", "accept"}
    /\ (exc.at # "none" /\ pc = "accept") => openChannels = 0

\* C8: after a zero-length read the session ends with no error at process
\* level, the channel is closed before the next accept, and the session
\* that accept starts has discard count 0 when its relay loop begins.
C8_OrderlyDisconnect ==
    /\ ~connectedSocket => pc # "crashed"
    /\ (~connectedSocket /\ pc = "accept") => openChannels = 0
    /\ (pc = "loop" /\ trace = <<>>) => discard_count = 0

\* C9: at most one client channel is open at any time, and none while the
\* outer loop waits in accept, after an orderly disconnect and after an
\* error alike.
C9_OneChannel ==
    /\ openChannels <= 1
    /\ pc = "accept" => openChannels = 0

C9_Witness ==
    /\ pc = "accept"
    /\ exc.at = "read"
    /\ Len(trace) > 0

\* C10: an iteration of the relay loop reads at most one client byte and at
\* most one serial byte, and its serial read comes after its client read.
C10_OneBytePerDirection ==
    /\ iterC <= 1
    /\ iterS <= 1
    /\ iterS > 0 => iterPolled
    /\ pc \in {"uart", "send", "pulse"} => iterPolled

C10_Witness ==
    /\ pc = "send"
    /\ iterC = 1
    /\ iterS = 1

\* C11: the reset line is pulsed only for a 243 that is the byte right
\* after a 255; a 243 in the second place of the window (255,65,243) is
\* discarded without a pulse.
C11_BrkOnlyAfterIac ==
    /\ \A i \in 1..Len(trace) :
          trace[i].pulse =>
             trace[i].b = BRK /\ i > 1 /\ trace[i - 1].b = IAC
    /\ RxBytes = <<IAC, 65, BRK>> => pulses = 0 /\ uartTx = <<>>

\* C12 as stated: once the zero-length read is seen, the UART is not read
\* and send is not called before the channel is closed.
C12_NoServiceAfterEof ==
    ~connectedSocket => iterS = 0 /\ pc # "send"

\* C12 as amended: once the zero-length read is seen no further client read
\* is made and the loop test ends the session, but the rest of that
\* iteration runs first: at most one serial byte is read and handed to send.
C12_EofEndsAfterIteration ==
    /\ [](~connectedSocket => iterS <= 1 /\ pc # "read")
    /\ [][(~connectedSocket /\ pc \in RelayPcs) =>
             /\ pc' # "read"
             /\ trace' = trace
             /\ uartTx' = uartTx
             /\ Len(serLog') <= Len(serLog) + 1
             /\ pc = "loop" => pc' = "close"]_vars

C12_Witness ==
    /\ ~connectedSocket
    /\ pc = "loop"
    /\ iterS = 1
    /\ clientOut = Preamble \o serLog

\* C13: an IAC read in any filter state is neither forwarded nor a cause
\* of a pulse and leaves the discard count at 2; two further bytes other
\* than IAC bring the filter back to NORMAL.
C13_IacRestarts ==
    \A i \in 1..Len(trace) :
       trace[i].b = IAC =>
          /\ ~trace[i].write
          /\ ~trace[i].pulse
          /\ DcAfter(i) = 2
          /\ ( /\ i + 2 <= Len(trace)
               /\ trace[i + 1].b # IAC
               /\ trace[i + 2].b # IAC
               /\ (i + 2 < Len(trace) \/ pc # "pulse") ) => DcAfter(i + 2) = 0

C13_Witness ==
    /\ RxBytes = <<IAC, 65, IAC, 66>>
    /\ trace[3].dc = 1
    /\ discard_count = 1

\* C14: the discard count is always 0, 1 or 2 and is 0 when a relay loop
\* starts; apart from the session initialisation only the processing of a
\* client byte changes it: a read that yields no byte, the UART poll, the
\* send with its retries and the loop test leave it as it is.
C14_FilterStateFrame ==
    /\ [](discard_count \in {0, 1, 2})
    /\ []((pc \in RelayPcs /\ trace = <<>>) => discard_count = 0)
    /\ [][discard_count' # discard_count =>
             \/ pc = "preamble" /\ discard_count' = 0
             \/ pc = "read" /\ Len(trace') = Len(trace) + 1
             \/ pc = "pulse" /\ trace[Len(trace)].pulse]_vars
    /\ [][(pc \in {"loop", "uart", "send"} \/ (pc = "read" /\ trace' = trace))
             => discard_count' = discard_count]_vars

C14_Witness ==
    /\ pc = "loop"
    /\ discard_count = 2
    /\ iterPolled
    /\ iterC = 0
    /\ iterS = 1
    /\ exc = NoExc

\* C15: nReset is low only inside the pulse; the pulse is one fall and one
\* rise, and between them nothing is read or written in either direction;
\* the line is high when a session starts and when it ends.
C15_ResetLine ==
    /\ [](nReset <=> pc # "pulse")
    /\ [][~nReset =>
             /\ nReset'
             /\ pc' = "uart"
             /\ trace' = trace
             /\ uartTx' = uartTx
             /\ serLog' = serLog
             /\ clientOut' = clientOut
             /\ pulses' = pulses]_vars
    /\ [][(nReset /\ ~nReset') =>
             pc = "read" /\ pulses' = pulses + 1]_vars

C15_Witness ==
    /\ pc = "uart"
    /\ nReset
    /\ pulses = 1
    /\ trace[Len(trace)].pulse

\* ------------------------------------------------------------- liveness

\* The steps the program takes without waiting for a peer: everything but
\* the blocking accept.
Step ==
    \/ SendPreamble
    \/ LoopTest
    \/ ClientRead
    \/ PulseEnd
    \/ UartPoll
    \/ Send
    \/ Close
    \/ Except

\* The single thread keeps running: a step that is possible is taken.
FairSpec == Spec /\ WF_vars(Step)

\* C16: while a session is in its relay loop each direction is polled
\* again, whatever the other direction does: from any point of the loop
\* the client read and the UART poll are reached again, unless the session
\* ends by disconnect or transport error.
C16_BothDirectionsServiced ==
    /\ [](pc \in RelayPcs =>
             <>(pc = "read" \/ pc \in {"close", "except"}))
    /\ [](pc \in RelayPcs =>
             <>(pc = "uart" \/ pc \in {"close", "except"}))

\* C17: the relay loop is left only after a zero-length read (through the
\* loop test) or after a call on the channel raised; an iteration in which
\* the client read yields nothing and the UART has nothing goes back to the
\* client read with the channel open, no byte written either way and no
\* pulse, and being possible it is taken again and again.
C17_OnlyDisconnectOrError ==
    /\ [][(pc \in RelayPcs /\ pc' \notin RelayPcs) =>
             \/ pc = "loop" /\ pc' = "close" /\ ~connectedSocket
             \/ pc' \in {"except", "crashed"} /\ exc'.at \in {"read", "send"}]_vars
    /\ [][(pc = "read" /\ trace' = trace /\ connectedSocket' /\ exc' = exc) =>
             pc' = "uart"]_vars
    /\ [][(pc = "uart" /\ serLog' = serLog) => pc' = "loop"]_vars
    /\ [][(pc = "loop" /\ connectedSocket) => pc' = "read"]_vars
    /\ [][(pc \in {"loop", "read", "uart"}
           /\ trace' = trace /\ serLog' = serLog) =>
             /\ uartTx' = uartTx
             /\ clientOut' = clientOut
             /\ pulses' = pulses
             /\ nReset' = nReset
             /\ openChannels' = openChannels]_vars
    /\ []((pc = "loop" /\ connectedSocket) => <>(pc = "read"))

C17_Witness ==
    /\ pc = "loop"
    /\ connectedSocket
    /\ iterPolled
    /\ trace = <<>>
    /\ serLog = <<>>
    /\ clientOut = Preamble
    /\ openChannels = 1

\* C18: no byte 255 and no byte 0 is ever written to the UART; a doubled
\* IAC from the client puts nothing on the UART.
C18_NoIacNoNulOnUart ==
    /\ \A k \in 1..Len(uartTx) : uartTx[k] \notin {IAC, NUL}
    /\ \A i \in 1..(Len(trace) - 1) :
          (trace[i].b = IAC /\ trace[i + 1].b = IAC) =>
             ~trace[i].write /\ ~trace[i + 1].write

C18_Witness ==
    /\ RxBytes = <<65, NUL, IAC, IAC>>
    /\ uartTx = <<65>>

\* C19: the telnet LED is on exactly while a session is active: off while
\* the outer loop waits in accept, on from accept to teardown.
C19_LedTracksSession ==
    /\ pc = "accept" => ~telnetLed
    /\ pc \in RelayPcs \cup {"preamble", "close", "except"} => telnetLed
====
